---------------------------- MODULE Spec2Model ----------------------------
(***************************************************************************)
(* A model of the two scripts of spezi/mottenmapping:                      *)
(*   python/artnet-test.py   builds one ArtDMX packet and sends it by UDP  *)
(*   python/svg_to_isf.py    parses the polygons of an SVG document and    *)
(*                           writes a shader that tests each fan triangle  *)
(*                                                                         *)
(* Bytes are integers 0..255 and a packet is a sequence of bytes.  Text    *)
(* (an attribute value, a numeric literal of the shader) is a sequence of  *)
(* one-character strings.  A float is an integer number of halves: every   *)
(* number of this model is a multiple of 0.5, which binary floating point  *)
(* represents exactly, so float(), subtraction and '%.3f' are exact.       *)
(***************************************************************************)
EXTENDS Integers, Sequences, FiniteSets, TLC

VARIABLES
    an_pc,        \* send_artnet: "idle", "called", "built", "sent", "done", "raised"
    an_args,      \* send_artnet's arguments [universe, value]
    an_packet,    \* the local variable packet
    an_sent,      \* the datagrams handed to sock.sendto, in order
    an_err,       \* the exception that left send_artnet, or "none"
    tri_pc,       \* polygon_to_triangles called alone: "idle", "called", "returned"
    tri_points,   \* its argument, as the caller holds it
    tri_arg,      \* the argument as it was when the call was made
    tri_out,      \* its return value
    pc,           \* svg_to_isf.py: "idle", "main", "try", "parsed", "return", "exit"
    argv,         \* sys.argv
    disk,         \* the input path on disk: whether it exists, and the document
    output_path,  \* main's output_path
    parsed,       \* what the call of parse_svg ended with
    parse_calls,  \* how often this run called parse_svg
    gen,          \* the call of generate_isf_shader: "none", "wrote", "raised"
    written,      \* every write of an output file so far, in order
    result,       \* what main returned: "none", "True", "False"
    status,       \* the exit status of the process, -1 while it runs
    runs          \* how many runs of the converter were started

an_vars  == <<an_pc, an_args, an_packet, an_sent, an_err>>
tri_vars == <<tri_pc, tri_points, tri_arg, tri_out>>
svg_vars == <<pc, argv, disk, output_path, parsed, parse_calls, gen, written,
              result, status, runs>>
vars     == <<an_vars, tri_vars, svg_vars>>

(***************************************************************************)
(* Bounds of the model.                                                    *)
(***************************************************************************)
\* how far around each boundary of the argument ranges the arguments are drawn
Spread == 1
\* the longest vertex list handed to polygon_to_triangles on its own
MaxPts == 4
\* the most polygon elements a document holds
MaxElems == 2
\* the most runs of the converter on one input
MaxRuns == 2

(***************************************************************************)
(* python/artnet-test.py                                                   *)
(***************************************************************************)
DmxChannels == 512

Around(c, k) == (c - k)..(c + k)

\* the universes and channel values the command line can hand to send_artnet
\* (argparse's type=int accepts any integer)
Universes == Around(0, Spread) \cup Around(256, Spread)
                \cup Around(32768, Spread) \cup Around(65535, Spread)
Values    == Around(0, Spread) \cup Around(128, Spread) \cup Around(255, Spread)

\* b'Art-Net\x00'
ArtNetId == <<65, 114, 116, 45, 78, 101, 116, 0>>

\* The value of a call that can raise: err is the exception ("none" when it
\* returns) and data is what it returns.
Ok(d)    == [err |-> "none", data |-> d]
Raise(e) == [err |-> e, data |-> <<>>]

\* struct.pack('<H', n) and struct.pack('>H', n): struct.error unless
\* 0 <= n <= 65535.  (PackLE16Swapped: the little-endian field written high
\* byte first.)
PackLE16Swapped(n) ==
    IF n \in 0..65535 THEN Ok(<<n \div 256, n % 256>>) ELSE Raise("struct.error")
PackLE16(n) ==
    IF n \in 0..65535 THEN Ok(<<n % 256, n \div 256>>) ELSE Raise("struct.error")
PackBE16(n) ==
    IF n \in 0..65535 THEN Ok(<<n \div 256, n % 256>>) ELSE Raise("struct.error")
\* struct.pack('B', n)
PackB(n) ==
    IF n \in 0..255 THEN Ok(<<n>>) ELSE Raise("struct.error")

\* bytes(list): ValueError unless every element is in range(0, 256).
\* (BytesTruncating: a conversion that keeps the low 8 bits instead.)
BytesTruncating(list) == Ok([i \in 1..Len(list) |-> list[i] % 256])
Bytes(list) ==
    IF \A i \in 1..Len(list) : list[i] \in 0..255
    THEN Ok(list) ELSE Raise("ValueError")

\* [value] * n
Repeat(value, n) == [i \in 1..n |-> value]

\* The first exception among the calls of `parts`, in order, or "none".
RECURSIVE FirstErr(_)
FirstErr(parts) ==
    IF parts = <<>> THEN "none"
    ELSE IF Head(parts).err # "none" THEN Head(parts).err
    ELSE FirstErr(Tail(parts))

RECURSIVE Concat(_)
Concat(parts) ==
    IF parts = <<>> THEN <<>> ELSE Head(parts).data \o Concat(Tail(parts))

\* send_artnet, lines 10-22: header, opcode, version, sequence, physical,
\* universe_bytes, length, dmx_data are evaluated in this order and
\* concatenated in this order
BuildPacket(universe, value) ==
    LET parts == << Ok(ArtNetId), PackLE16(20480), PackBE16(14), PackB(0),
                    PackB(0), PackLE16(universe), PackBE16(DmxChannels),
                    Bytes(Repeat(value, DmxChannels)) >>
    IN  IF FirstErr(parts) = "none" THEN Ok(Concat(parts))
        ELSE Raise(FirstErr(parts))

AnInit ==
    /\ an_pc = "idle"
    /\ an_args = [universe |-> 0, value |-> 0]
    /\ an_packet = <<>>
    /\ an_sent = <<>>
    /\ an_err = "none"

\* __main__: parse_args and the call of send_artnet
AnCall ==
    /\ an_pc = "idle"
    /\ \E u \in Universes, v \in Values :
           an_args' = [universe |-> u, value |-> v]
    /\ an_pc' = "called"
    /\ UNCHANGED <<an_packet, an_sent, an_err>>
    /\ UNCHANGED <<tri_vars, svg_vars>>

\* lines 10-22
AnBuild ==
    /\ an_pc = "called"
    /\ LET r == BuildPacket(an_args.universe, an_args.value) IN
         IF r.err = "none"
         THEN /\ an_packet' = r.data
              /\ an_pc' = "built"
              /\ an_err' = an_err
         ELSE /\ an_err' = r.err
              /\ an_pc' = "raised"
              /\ an_packet' = an_packet
    /\ UNCHANGED <<an_args, an_sent>>
    /\ UNCHANGED <<tri_vars, svg_vars>>

\* lines 25-26: the socket is made and the packet is handed to sendto
AnSendTo ==
    /\ an_pc = "built"
    /\ an_sent' = Append(an_sent, an_packet)
    /\ an_pc' = "sent"
    /\ UNCHANGED <<an_args, an_packet, an_err>>
    /\ UNCHANGED <<tri_vars, svg_vars>>

\* lines 25-26 when the transport fails: sendto was handed the packet and
\* raises OSError, which nothing catches
AnSendToFails ==
    /\ an_pc = "built"
    /\ an_sent' = Append(an_sent, an_packet)
    /\ an_pc' = "raised"
    /\ an_err' = "OSError"
    /\ UNCHANGED <<an_args, an_packet>>
    /\ UNCHANGED <<tri_vars, svg_vars>>

\* lines 27-29
AnClose ==
    /\ an_pc = "sent"
    /\ an_pc' = "done"
    /\ UNCHANGED <<an_args, an_packet, an_sent, an_err>>
    /\ UNCHANGED <<tri_vars, svg_vars>>

AnNext == AnCall \/ AnBuild \/ AnSendTo \/ AnSendToFails \/ AnClose

(***************************************************************************)
(* python/svg_to_isf.py: polygon_to_triangles                              *)
(***************************************************************************)
\* points[i] of a Python list (0-based)
At(list, i) == list[i + 1]

\* the body of the loop `for i in range(1, len(points) - 1)`, from i on.
\* (TriLoopStrip: a strip, anchored at the vertex before i instead of 0.)
RECURSIVE TriLoopStrip(_, _, _)
TriLoopStrip(points, i, triangles) ==
    IF i < Len(points) - 1
    THEN TriLoopStrip(points, i + 1,
             Append(triangles, <<At(points, i - 1), At(points, i), At(points, i + 1)>>))
    ELSE triangles
RECURSIVE TriLoop(_, _, _)
TriLoop(points, i, triangles) ==
    IF i < Len(points) - 1
    THEN TriLoop(points, i + 1,
             Append(triangles, <<At(points, 0), At(points, i), At(points, i + 1)>>))
    ELSE triangles

polygon_to_triangles_strip(points) == TriLoopStrip(points, 1, <<>>)
polygon_to_triangles(points) == TriLoop(points, 1, <<>>)

\* the vertices the lists handed to polygon_to_triangles are made of
TriVerts == {<<0, 0>>, <<20, 0>>, <<20, 20>>}

RECURSIVE SeqsUpTo(_, _)
SeqsUpTo(S, n) ==
    IF n = 0 THEN {<<>>}
    ELSE LET shorter == SeqsUpTo(S, n - 1)
         IN  shorter \cup {Append(q, x) : q \in shorter, x \in S}

TriIdle ==
    /\ tri_pc = "idle"
    /\ tri_points = <<>>
    /\ tri_arg = <<>>
    /\ tri_out = <<>>

TriInit ==
    /\ tri_pc = "called"
    /\ tri_points \in SeqsUpTo(TriVerts, MaxPts)
    /\ tri_arg = tri_points
    /\ tri_out = <<>>

\* lines 62-67: the list is read, never assigned to
TriReturn ==
    /\ tri_pc = "called"
    /\ tri_out' = polygon_to_triangles(tri_points)
    /\ tri_pc' = "returned"
    /\ UNCHANGED <<tri_points, tri_arg>>
    /\ UNCHANGED <<an_vars, svg_vars>>

(***************************************************************************)
(* python/svg_to_isf.py: text and numbers                                  *)
(***************************************************************************)
DigitChars == <<"0", "1", "2", "3", "4", "5", "6", "7", "8", "9">>
IsDigit(c) == \E d \in 1..10 : DigitChars[d] = c
DigitVal(c) == (CHOOSE d \in 1..10 : DigitChars[d] = c) - 1
IsSign(c) == c \in {"-", "+"}
\* the class [\d.] of the regular expression
IsNumChar(c) == IsDigit(c) \/ c = "."

\* text[from..to], empty when to < from
Slice(text, from, to) == [k \in 1..(to - from + 1) |-> text[from + k - 1]]

\* the end of the longest run of [\d.] that starts at p (p - 1 when none does)
RECURSIVE RunEnd(_, _)
RunEnd(text, p) ==
    IF p <= Len(text) /\ IsNumChar(text[p]) THEN RunEnd(text, p + 1) ELSE p - 1

\* re.findall(r'[-+]?[\d.]+', text) from position p on: the leftmost
\* non-overlapping matches, each as long as it can be
RECURSIVE FindAllFrom(_, _)
FindAllFrom(text, p) ==
    IF p > Len(text) THEN <<>>
    ELSE LET q == IF IsSign(text[p]) THEN p + 1 ELSE p
             e == RunEnd(text, q)
         IN  IF e >= q
             THEN <<Slice(text, p, e)>> \o FindAllFrom(text, e + 1)
             ELSE FindAllFrom(text, p + 1)

FindAll(text) == FindAllFrom(text, 1)

\* the decimal number a sequence of digits writes
RECURSIVE DigitsVal(_)
DigitsVal(ds) ==
    IF ds = <<>> THEN 0
    ELSE 10 * DigitsVal(Slice(ds, 1, Len(ds) - 1)) + DigitVal(ds[Len(ds)])

\* the digits that write n >= 0
RECURSIVE Digits(_)
Digits(n) ==
    IF n < 10 THEN <<DigitChars[n + 1]>>
    ELSE Digits(n \div 10) \o <<DigitChars[(n % 10) + 1]>>

\* Is `text` a literal float() accepts: an optional sign, then digits with at
\* most one point among them and at least one digit.  (The exponent, inf, nan,
\* underscore and surrounding-blank forms float() also accepts are made of
\* characters no text of this model holds.)
IsFloatLiteral(text) ==
    LET body == IF text # <<>> /\ IsSign(text[1]) THEN Tail(text) ELSE text
    IN  /\ \A k \in 1..Len(body) : IsNumChar(body[k])
        /\ \E k \in 1..Len(body) : IsDigit(body[k])
        /\ Cardinality({k \in 1..Len(body) : body[k] = "."}) <= 1

\* The number of halves a float literal is worth.  The texts of this model
\* write multiples of 0.5 only (a fraction of 5 or of zeros).
HalvesOf(text) ==
    LET neg   == text[1] = "-"
        body  == IF IsSign(text[1]) THEN Tail(text) ELSE text
        dots  == {k \in 1..Len(body) : body[k] = "."}
        dot   == IF dots = {} THEN Len(body) + 1 ELSE CHOOSE k \in dots : TRUE
        whole == DigitsVal(Slice(body, 1, dot - 1))
        frac  == Slice(body, dot + 1, Len(body))
        half  == IF frac # <<>> /\ frac[1] = "5" THEN 1 ELSE 0
        mag   == 2 * whole + half
    IN  IF neg THEN 0 - mag ELSE mag

\* float(text): ValueError unless text is a float literal
Float(text) ==
    IF IsFloatLiteral(text) THEN Ok(HalvesOf(text)) ELSE Raise("ValueError")

\* f'{h:.3f}' and f'{h:.1f}' of a number of halves
Pad3(n) == IF n < 10 THEN <<"0", "0">> \o Digits(n)
           ELSE IF n < 100 THEN <<"0">> \o Digits(n) ELSE Digits(n)
Abs(n) == IF n < 0 THEN 0 - n ELSE n
Fmt3(h) ==
    (IF h < 0 THEN <<"-">> ELSE <<>>)
        \o Digits(Abs(h) \div 2) \o <<".">> \o Pad3((Abs(h) % 2) * 500)
Fmt1(h) ==
    (IF h < 0 THEN <<"-">> ELSE <<>>)
        \o Digits(Abs(h) \div 2) \o <<".">> \o Digits((Abs(h) % 2) * 5)

(***************************************************************************)
(* python/svg_to_isf.py: the SVG document                                  *)
(***************************************************************************)
\* An attribute of an element: absent, or present with a text.
Absent == [present |-> FALSE, text |-> <<>>]
Attr(text) == [present |-> TRUE, text |-> text]
\* element.get(name, default)
Get(attr, default) == IF attr.present THEN attr.text ELSE default

\* lines 20-27: the pairs of consecutive tokens, each converted by float();
\* a last token without a partner is skipped before it is converted
RECURSIVE PairLoop(_, _, _)
PairLoop(coords, i, points) ==
    IF i >= Len(coords) THEN Ok(points)
    ELSE IF i + 1 < Len(coords)
         THEN LET x == Float(At(coords, i))
                  y == Float(At(coords, i + 1))
              IN  IF x.err # "none" THEN Raise(x.err)
                  ELSE IF y.err # "none" THEN Raise(y.err)
                  ELSE PairLoop(coords, i + 2, Append(points, <<x.data, y.data>>))
         ELSE PairLoop(coords, i + 2, points)

parse_svg_points(points_str) == PairLoop(FindAll(points_str), 0, <<>>)

\* `if len(points) >= 3`, lines 48 and 57.  (RetainsFromTwo: the threshold
\* one too low.)
RetainsFromTwo(points) == Len(points) >= 2
Retains(points) == Len(points) >= 3

\* The loops of lines 44-49 and 53-58 over the elements root.findall finds:
\* './/svg:polygon' finds the polygon elements of the SVG namespace and
\* './/polygon' those of no namespace, both in document order.  `found` is
\* the list the loop appends to, each entry with the place in the document
\* of the element it came from.
RECURSIVE SearchLoop(_, _, _, _)
SearchLoop(elems, i, svgns, found) ==
    IF i > Len(elems) THEN Ok(found)
    ELSE IF elems[i].svgns # svgns THEN SearchLoop(elems, i + 1, svgns, found)
    ELSE LET points_str == Get(elems[i].points, <<>>) IN
         IF points_str = <<>> THEN SearchLoop(elems, i + 1, svgns, found)
         ELSE LET r == parse_svg_points(points_str) IN
              IF r.err # "none" THEN Raise(r.err)
              ELSE IF Retains(r.data)
                   THEN SearchLoop(elems, i + 1, svgns,
                            Append(found, [elem |-> i, points |-> r.data]))
                   ELSE SearchLoop(elems, i + 1, svgns, found)

\* float(root.get('width', '1920')), lines 35-36.  (DimOrDefault: a reading
\* that falls back to the default when the attribute is no number.)
DimOrDefault(attr, default) ==
    IF Float(Get(attr, default)).err = "none"
    THEN Float(Get(attr, default)) ELSE Float(default)
Dim(attr, default) == Float(Get(attr, default))

\* `if not polygons`, line 52, where nsfound is what the first loop was
\* given by findall and polygons is what it kept.  (FallbackWhenNoneFound: a
\* test of what findall found instead.)
FallbackWhenNoneFound(nsfound, polygons) == nsfound = <<>>
Fallback(nsfound, polygons) == polygons = <<>>

\* The value parse_svg returns, with what the claims need to know of how it
\* got there: plain is whether the second search was made, and from is the
\* place in the document each returned polygon came from.
Parsed(polys, width, height, plain) ==
    [err |-> "none",
     polygons |-> [k \in 1..Len(polys) |-> polys[k].points],
     width |-> width, height |-> height,
     plain |-> plain,
     from |-> [k \in 1..Len(polys) |-> polys[k].elem]]
ParseRaised(e) ==
    [err |-> e, polygons |-> <<>>, width |-> 0, height |-> 0,
     plain |-> FALSE, from |-> <<>>]

\* lines 29-60
parse_svg(doc) ==
    IF ~doc.wellformed THEN ParseRaised("ParseError")
    ELSE
    LET width  == Dim(doc.width, <<"1", "9", "2", "0">>)
        height == Dim(doc.height, <<"1", "0", "8", "0">>)
        nsfound == SelectSeq(doc.elems, LAMBDA e : e.svgns)
        first  == SearchLoop(doc.elems, 1, TRUE, <<>>)
        second == SearchLoop(doc.elems, 1, FALSE, first.data)
    IN  IF width.err # "none" THEN ParseRaised(width.err)
        ELSE IF height.err # "none" THEN ParseRaised(height.err)
        ELSE IF first.err # "none" THEN ParseRaised(first.err)
        ELSE IF ~Fallback(nsfound, first.data)
             THEN Parsed(first.data, width.data, height.data, FALSE)
        ELSE IF second.err # "none" THEN ParseRaised(second.err)
        ELSE Parsed(second.data, width.data, height.data, TRUE)

(***************************************************************************)
(* python/svg_to_isf.py: generate_isf_shader                               *)
(***************************************************************************)
\* f"poly{i}_alpha"
AlphaName(i) == <<"poly">> \o Digits(i) \o <<"_alpha">>

\* One entry of the INPUTS list of the ISF header.
FloatInput(name, label) ==
    [NAME |-> name, TYPE |-> "float", DEFAULT |-> "1.0", MIN |-> "0.0",
     MAX |-> "1.0", LABEL |-> label]
ColorInput(name, default, label) ==
    [NAME |-> name, TYPE |-> "color", DEFAULT |-> default, MIN |-> "",
     MAX |-> "", LABEL |-> label]

\* lines 75-83: one input for each index of the polygon list
PolyInputs(polygons) ==
    [k \in 1..Len(polygons) |->
        FloatInput(AlphaName(k - 1),
                   <<"Polygon ">> \o Digits(k) \o <<" Alpha">>)]

\* lines 106-109: the keyword a test starts with.  (KeywordAlwaysIf: every
\* test its own statement.)
KeywordAlwaysIf(triangle_counter) == "if"
Keyword(triangle_counter) ==
    IF triangle_counter = 0 THEN "if" ELSE "else if"

\* lines 101-103: (x, height - y), and how line 107 / 109 writes it.
\* (FlippedNot: y written as it is in the document.)
FlippedNot(p, height) == <<Fmt3(p[1]), Fmt3(p[2])>>
Flipped(p, height) == <<Fmt3(p[1]), Fmt3(height - p[2])>>

\* lines 99-112: the tests of the triangles of polygon poly_idx, appended to
\* acc = [checks_list, triangle_counter]
RECURSIVE TriangleChecks(_, _, _, _, _)
TriangleChecks(triangles, tri_idx, poly_idx, height, acc) ==
    IF tri_idx >= Len(triangles) THEN acc
    ELSE LET t == At(triangles, tri_idx)
             check == [kw |-> Keyword(acc.triangle_counter),
                       a |-> Flipped(t[1], height),
                       b |-> Flipped(t[2], height),
                       c |-> Flipped(t[3], height),
                       alpha |-> AlphaName(poly_idx)]
         IN  TriangleChecks(triangles, tri_idx + 1, poly_idx, height,
                 [checks_list |-> Append(acc.checks_list, check),
                  triangle_counter |-> acc.triangle_counter + 1])

\* lines 96-112
RECURSIVE PolygonChecks(_, _, _, _)
PolygonChecks(polygons, poly_idx, height, acc) ==
    IF poly_idx >= Len(polygons) THEN acc
    ELSE PolygonChecks(polygons, poly_idx + 1, height,
             TriangleChecks(polygon_to_triangles(At(polygons, poly_idx)), 0,
                            poly_idx, height, acc))

\* lines 117-182: the text of the shader.  The header between the comment
\* marks is there whatever the output path is.
ShaderText(polygons, width, height) ==
    [header |-> TRUE,
     INPUTS |-> <<FloatInput(<<"globalAlpha">>, <<"Global Alpha">>)>>
                    \o PolyInputs(polygons)
                    \o <<ColorInput(<<"polygonColor">>, "[0.8, 0.8, 0.8, 1.0]",
                                    <<"Polygon Color">>),
                         ColorInput(<<"backgroundColor">>, "[0.0, 0.0, 0.0, 0.0]",
                                    <<"Background Color">>)>>,
     scale  |-> <<Fmt1(width), Fmt1(height)>>,
     checks |-> PolygonChecks(polygons, 0, height,
                    [checks_list |-> <<>>, triangle_counter |-> 0]).checks_list]

\* a text whose header is written only for the .isf extension
ShaderTextByMode(polygons, width, height, to_path) ==
    [ShaderText(polygons, width, height) EXCEPT !.header = (to_path.suffix = ".isf")]

\* lines 69-185: what generate_isf_shader writes, and where
generate_isf_shader_by_mode(polygons, width, height, to_path) ==
    [path |-> to_path,
     text |-> ShaderTextByMode(polygons, width, height, to_path)]
generate_isf_shader(polygons, width, height, to_path) ==
    [path |-> to_path, text |-> ShaderText(polygons, width, height)]

(***************************************************************************)
(* The shader the text is: pointInTriangle and main, lines 145-182         *)
(***************************************************************************)
\* vec2(x, y) of two literals, in halves
Vec2(lits) == <<HalvesOf(lits[1]), HalvesOf(lits[2])>>
Sub(u, v) == <<u[1] - v[1], u[2] - v[2]>>
Dot(u, v) == u[1] * v[1] + u[2] * v[2]

\* lines 146-165.  u and v are the quotients nu / denom and nv / denom; in
\* halves every dot product is 4 times and denom 16 times the shader's, so
\* abs(denom) < 0.0001 is denom = 0, and the three comparisons with the
\* tolerance 0.0001 are stated on the integers nu, nv and denom.
pointInTriangle(p, a, b, c) ==
    LET v0 == Sub(c, a)
        v1 == Sub(b, a)
        v2 == Sub(p, a)
        dot00 == Dot(v0, v0)
        dot01 == Dot(v0, v1)
        dot02 == Dot(v0, v2)
        dot11 == Dot(v1, v1)
        dot12 == Dot(v1, v2)
        denom == dot00 * dot11 - dot01 * dot01
        sgn == IF denom < 0 THEN 0 - 1 ELSE 1
        nu == sgn * (dot11 * dot02 - dot01 * dot12)
        nv == sgn * (dot00 * dot12 - dot01 * dot02)
        tol == Abs(denom) \div 10000
    IN  IF denom = 0 THEN FALSE
        ELSE nu >= 0 - tol /\ nv >= 0 - tol /\ nu + nv <= Abs(denom) + tol

\* The tests of a text as the shader compiler reads them: the keyword, the
\* three vec2 constants and the parameter assigned.
Compiled(text) ==
    [k \in 1..Len(text.checks) |->
        [kw |-> text.checks[k].kw,
         a |-> Vec2(text.checks[k].a),
         b |-> Vec2(text.checks[k].b),
         c |-> Vec2(text.checks[k].c),
         alpha |-> text.checks[k].alpha]]

\* lines 172-174: `float alpha = 0.0;` and then the tests in the order of the
\* text.  A test that starts with `if` opens a new statement; one that starts
\* with `else if` belongs to the statement before it and is evaluated only
\* when no test of that statement has matched.  The value is the name of the
\* parameter alpha was last assigned, <<>> when it still is 0.0.
RECURSIVE RunChecks(_, _, _, _, _)
RunChecks(checks, k, pixelCoord, alpha, matched) ==
    IF k > Len(checks) THEN alpha
    ELSE LET ck == checks[k]
             tried == ck.kw = "if" \/ ~matched
             hit == tried /\ pointInTriangle(pixelCoord, ck.a, ck.b, ck.c)
         IN  RunChecks(checks, k + 1, pixelCoord,
                       IF hit THEN ck.alpha ELSE alpha,
                       IF ck.kw = "if" THEN hit ELSE matched \/ hit)

\* main() of the compiled shader at one pixel
ShaderAlpha(compiled, pixelCoord) == RunChecks(compiled, 1, pixelCoord, <<>>, FALSE)

(***************************************************************************)
(* python/svg_to_isf.py: the documents and command lines of the model      *)
(***************************************************************************)
\* The values of a points attribute: none; the empty text; two pairs and a
\* token without a partner; the square of the specification; a triangle that
\* overlaps the square, followed by a lone point (a token float() rejects,
\* and that has no partner); and a lone point in the place of an x.
PointsPool ==
    { Absent,
      Attr(<<>>),
      Attr(<<"0", ",", "0", " ", "1", "0", ",", "0", " ", "5">>),
      Attr(<<"0", ",", "0", " ", "1", "0", ",", "0", " ", "1", "0", ",", "1", "0", " ", "0", ",", "1", "0">>),
      Attr(<<"5", ",", "5", " ", "1", "5", ",", "5", " ", "5", ",", "1", "2", ".", "5", " ", ".">>),
      Attr(<<"0", ",", "0", " ", ".", " ", "1">>) }

\* A polygon element: of the SVG namespace or of none, with its points.
ElemPool == [svgns : BOOLEAN, points : PointsPool]

\* The width and height attributes of the root: both absent, both numeric,
\* or one of them with a unit.
DimPool ==
    { <<Absent, Absent>>,
      <<Attr(<<"2", "0">>), Attr(<<"2", "0">>)>>,
      <<Attr(<<"1", "0", "0", "p", "x">>), Attr(<<"2", "0">>)>>,
      <<Attr(<<"2", "0">>), Attr(<<"1", "0", "0", "p", "x">>)>> }

Malformed == [wellformed |-> FALSE, width |-> Absent, height |-> Absent, elems |-> <<>>]

DocsOf(elemseqs) ==
    {Malformed} \cup
    { [wellformed |-> TRUE, width |-> d[1], height |-> d[2], elems |-> es] :
          d \in DimPool, es \in elemseqs }

Docs == DocsOf(SeqsUpTo(ElemPool, MaxElems))

DisksOf(docs) ==
    {[exists |-> FALSE, doc |-> Malformed]}
        \cup {[exists |-> TRUE, doc |-> d] : d \in docs}

\* Path('in.svg')
InputPath == [stem |-> "in", suffix |-> ".svg"]
ModeArgs == {"--isf", "--glsl", "--other"}
Argvs == { <<"svg_to_isf.py">>, <<"svg_to_isf.py", InputPath>> }
            \cup { <<"svg_to_isf.py", InputPath, m>> : m \in ModeArgs }

(***************************************************************************)
(* python/svg_to_isf.py: main and the exit of the process                  *)
(***************************************************************************)
NoPath == [stem |-> "", suffix |-> ""]
NotParsed == ParseRaised("not called")

\* lines 208-214
OutputExt(args) ==
    IF Len(args) > 2 /\ args[3] = "--isf" THEN ".isf" ELSE ".glsl"

\* line 217
WithSuffix(path, ext) == [stem |-> path.stem, suffix |-> ext]

\* line 245.  (ExitStatusZero: an exit that ignores what main returned.)
ExitStatusZero(success) == 0
ExitStatus(success) == IF success THEN 0 ELSE 1

SvgIdle ==
    /\ pc = "idle"
    /\ argv = <<"svg_to_isf.py">>
    /\ disk = [exists |-> FALSE, doc |-> Malformed]
    /\ output_path = NoPath
    /\ parsed = NotParsed
    /\ parse_calls = 0
    /\ gen = "none"
    /\ written = <<>>
    /\ result = "none"
    /\ status = 0 - 1
    /\ runs = 0

SvgInitOn(disks) ==
    /\ pc = "main"
    /\ argv \in Argvs
    /\ disk \in disks
    /\ output_path = NoPath
    /\ parsed = NotParsed
    /\ parse_calls = 0
    /\ gen = "none"
    /\ written = <<>>
    /\ result = "none"
    /\ status = 0 - 1
    /\ runs = 1

\* lines 193-199: no argument, sys.exit(1)
MainUsage ==
    /\ pc = "main"
    /\ Len(argv) < 2
    /\ status' = 1
    /\ pc' = "exit"
    /\ UNCHANGED <<argv, disk, output_path, parsed, parse_calls, gen, written,
                   result, runs>>
    /\ UNCHANGED <<an_vars, tri_vars>>

\* lines 201-206: the input path does not exist, sys.exit(1)
MainNotFound ==
    /\ pc = "main"
    /\ Len(argv) >= 2
    /\ ~disk.exists
    /\ status' = 1
    /\ pc' = "exit"
    /\ UNCHANGED <<argv, disk, output_path, parsed, parse_calls, gen, written,
                   result, runs>>
    /\ UNCHANGED <<an_vars, tri_vars>>

\* lines 201-220: the input path exists; the output path is chosen
MainOutputPath ==
    /\ pc = "main"
    /\ Len(argv) >= 2
    /\ disk.exists
    /\ output_path' = WithSuffix(argv[2], OutputExt(argv))
    /\ pc' = "try"
    /\ UNCHANGED <<argv, disk, parsed, parse_calls, gen, written, result,
                   status, runs>>
    /\ UNCHANGED <<an_vars, tri_vars>>

\* lines 222-228, and lines 237-241 when parse_svg raises
MainParse ==
    /\ pc = "try"
    /\ parsed' = parse_svg(disk.doc)
    /\ parse_calls' = parse_calls + 1
    /\ IF parsed'.err = "none"
       THEN pc' = "parsed" /\ result' = result
       ELSE pc' = "return" /\ result' = "False"
    /\ UNCHANGED <<argv, disk, output_path, gen, written, status, runs>>
    /\ UNCHANGED <<an_vars, tri_vars>>

\* lines 230-233: generate_isf_shader opens the output file and writes it
MainGenerate ==
    /\ pc = "parsed"
    /\ parsed.polygons # <<>>
    /\ written' = Append(written,
           generate_isf_shader(parsed.polygons, parsed.width, parsed.height,
                               output_path))
    /\ gen' = "wrote"
    /\ result' = "True"
    /\ pc' = "return"
    /\ UNCHANGED <<argv, disk, output_path, parsed, parse_calls, status, runs>>
    /\ UNCHANGED <<an_vars, tri_vars>>

\* lines 230-231 and 237-241: open() or write() raises OSError (the output
\* cannot be written), and the handler returns False
MainGenerateFails ==
    /\ pc = "parsed"
    /\ parsed.polygons # <<>>
    /\ gen' = "raised"
    /\ result' = "False"
    /\ pc' = "return"
    /\ UNCHANGED <<argv, disk, output_path, parsed, parse_calls, written,
                   status, runs>>
    /\ UNCHANGED <<an_vars, tri_vars>>

\* lines 234-236
MainNoPolygons ==
    /\ pc = "parsed"
    /\ parsed.polygons = <<>>
    /\ result' = "False"
    /\ pc' = "return"
    /\ UNCHANGED <<argv, disk, output_path, parsed, parse_calls, gen, written,
                   status, runs>>
    /\ UNCHANGED <<an_vars, tri_vars>>

\* lines 244-245
Exit ==
    /\ pc = "return"
    /\ status' = ExitStatus(result = "True")
    /\ pc' = "exit"
    /\ UNCHANGED <<argv, disk, output_path, parsed, parse_calls, gen, written,
                   result, runs>>
    /\ UNCHANGED <<an_vars, tri_vars>>

\* The converter is started again on the same input path, with any second
\* argument; the input and the files written so far stay as they are.
RunAgain ==
    /\ pc = "exit"
    /\ runs < MaxRuns
    /\ Len(argv) >= 2
    /\ \E a \in Argvs : Len(a) >= 2 /\ argv' = a
    /\ pc' = "main"
    /\ output_path' = NoPath
    /\ parsed' = NotParsed
    /\ parse_calls' = 0
    /\ gen' = "none"
    /\ result' = "none"
    /\ status' = 0 - 1
    /\ runs' = runs + 1
    /\ UNCHANGED <<disk, written>>
    /\ UNCHANGED <<an_vars, tri_vars>>

SvgNext ==
    \/ MainUsage
    \/ MainNotFound
    \/ MainOutputPath
    \/ MainParse
    \/ MainGenerate
    \/ MainGenerateFails
    \/ MainNoPolygons
    \/ Exit

(***************************************************************************)
(* The specifications.                                                     *)
(***************************************************************************)
\* artnet-test.py run once
InitArtnet == AnInit /\ TriIdle /\ SvgIdle
SpecArtnet == InitArtnet /\ [][AnNext]_vars

\* polygon_to_triangles called once on any list of at most MaxPts vertices
InitTri == TriInit /\ AnInit /\ SvgIdle
SpecTri == InitTri /\ [][TriReturn]_vars

\* svg_to_isf.py run once, on any command line and any document
Init == AnInit /\ TriIdle /\ SvgInitOn(DisksOf(Docs))
Next == SvgNext
Spec == Init /\ [][Next]_vars

\* svg_to_isf.py run up to MaxRuns times on one input of at most one polygon
\* element
InitRuns == AnInit /\ TriIdle /\ SvgInitOn(DisksOf(DocsOf(SeqsUpTo(ElemPool, 1))))
NextRuns == SvgNext \/ RunAgain
SpecRuns == InitRuns /\ [][NextRuns]_vars

(***************************************************************************)
(* The claims: artnet-test.py                                              *)
(***************************************************************************)
ArtnetStarted == an_pc \notin {"idle", "called"}
ArtnetEnded == an_pc \in {"done", "raised"}

\* the 530-byte layout of an ArtDMX datagram for a universe and a value
ArtDmxLayout(d, universe, value) ==
    /\ Len(d) = 530
    /\ \A i \in 1..8 : d[i] = <<65, 114, 116, 45, 78, 101, 116, 0>>[i]
    /\ d[9] + 256 * d[10] = 20480
    /\ 256 * d[11] + d[12] = 14
    /\ d[13] = 0
    /\ d[14] = 0
    /\ d[15] + 256 * d[16] = universe
    /\ 256 * d[17] + d[18] = 512
    /\ 256 * d[17] + d[18] = Len(d) - 18
    /\ \A i \in 19..530 : d[i] = value

\* C1: for a universe in 0..65535 and a value in 0..255, building the packet
\* raises nothing and every datagram handed to sendto is 530 bytes long with
\* the ArtDMX layout: 'Art-Net' and NUL, 0x5000 little-endian, 14 big-endian,
\* two zero bytes, the universe little-endian, 512 big-endian (the length of
\* the payload), and 512 bytes equal to the value; a call that returns has
\* sent exactly one.
C1_PacketLayout ==
    (ArtnetStarted /\ an_args.universe \in 0..65535 /\ an_args.value \in 0..255)
    => /\ an_err \notin {"struct.error", "ValueError"}
       /\ an_pc # "built" => Len(an_sent) = 1
       /\ \A k \in 1..Len(an_sent) :
              ArtDmxLayout(an_sent[k], an_args.universe, an_args.value)

C1_Witness ==
    /\ an_pc = "done"
    /\ an_args.universe = 32768
    /\ an_args.value = 255
    /\ Len(an_sent) = 1

\* C2 as stated: for a value outside 0..255 (and a universe that packs),
\* send_artnet raises no error and sends one 530-byte datagram whose 512 data
\* bytes are value mod 256.
C2_AsStated ==
    (ArtnetEnded /\ an_args.universe \in 0..65535 /\ an_args.value \notin 0..255)
    => /\ an_err # "ValueError"
       /\ Len(an_sent) = 1
       /\ ArtDmxLayout(an_sent[1], an_args.universe, an_args.value % 256)

\* C2 as amended: for a value outside 0..255 (and a universe that packs),
\* building the data bytes raises ValueError, which leaves send_artnet before
\* any socket is made: no datagram is handed to sendto and nothing is
\* truncated.
C2_OutOfRangeRaises ==
    (ArtnetStarted /\ an_args.universe \in 0..65535 /\ an_args.value \notin 0..255)
    => /\ an_pc = "raised"
       /\ an_err = "ValueError"
       /\ an_sent = <<>>

C2_Witness ==
    /\ an_pc = "raised"
    /\ an_args.universe \in 0..65535
    /\ an_args.value = 256
    /\ an_err = "ValueError"

(***************************************************************************)
(* The claims: polygon_to_triangles                                        *)
(***************************************************************************)
\* C7: for a list of N >= 3 vertices polygon_to_triangles returns N - 2
\* triangles, the k-th being (v0, vk, vk+1), so each holds vertex 0; for a
\* list of 0, 1 or 2 vertices it returns the empty list; the list it was
\* given is as it was.
C7_FanTriangulation ==
    tri_pc = "returned"
    => LET N == Len(tri_arg) IN
       /\ tri_points = tri_arg
       /\ N < 3 => tri_out = <<>>
       /\ N >= 3 => /\ Len(tri_out) = N - 2
                    /\ \A k \in 1..(N - 2) :
                           /\ tri_out[k] = <<tri_arg[1], tri_arg[k + 1], tri_arg[k + 2]>>
                           /\ tri_out[k][1] = tri_arg[1]

C7_Witness ==
    /\ tri_pc = "returned"
    /\ Len(tri_arg) = 4
    /\ Cardinality({tri_arg[k] : k \in 2..4}) = 3
    /\ Len(tri_out) = 2

(***************************************************************************)
(* The claims: svg_to_isf.py                                               *)
(***************************************************************************)
ParseReturned == parsed.err = "none"
ParseRaisedErr == parsed.err \notin {"none", "not called"}

\* C3: the process exits with status 0 exactly when parse_svg returned at
\* least one polygon and generate_isf_shader wrote the output file without
\* raising, and with status 1 in every other outcome (no argument, no such
\* input path, no polygon kept, an exception in parse or generation); when
\* the input path does not exist parse_svg is never called; when it does not
\* exist or no polygon is kept, no output file is written.
C3_ExitStatus ==
    /\ ~disk.exists => parse_calls = 0
    /\ (~disk.exists \/ (ParseReturned /\ parsed.polygons = <<>>)) => written = <<>>
    /\ pc = "exit" =>
        /\ status \in {0, 1}
        /\ status = 0 <=> /\ parse_calls = 1
                          /\ ParseReturned
                          /\ Len(parsed.polygons) >= 1
                          /\ gen = "wrote"
                          /\ Len(written) = 1
        /\ ( \/ Len(argv) < 2
             \/ ~disk.exists
             \/ ParseRaisedErr
             \/ (ParseReturned /\ parsed.polygons = <<>>)
             \/ gen = "raised" ) => status = 1

C3_Witness ==
    /\ pc = "exit"
    /\ status = 0
    /\ Len(parsed.polygons) >= 1
    /\ Len(written) = 1

\* What the document says of its i-th polygon element, read off its points
\* attribute: the tokens, and how many pairs they make.
TokensOf(i) == FindAll(Get(disk.doc.elems[i].points, <<>>))
PairCount(i) == Len(TokensOf(i)) \div 2
\* the polygon elements of the SVG namespace that yield at least 3 pairs
NsKept == {i \in 1..Len(disk.doc.elems) :
               disk.doc.elems[i].svgns /\ PairCount(i) >= 3}
NsElems == {i \in 1..Len(disk.doc.elems) : disk.doc.elems[i].svgns}

\* C4 as stated: the search without namespace is made only if the search
\* under the SVG namespace finds no polygon element; whenever that search
\* finds at least one, no polygon element without namespace contributes to
\* the returned list.
C4_AsStated ==
    ParseReturned
    => /\ parsed.plain => NsElems = {}
       /\ NsElems # {} =>
              \A k \in 1..Len(parsed.from) : disk.doc.elems[parsed.from[k]].svgns

\* C4 as amended: the search without namespace is made exactly when the
\* search under the SVG namespace has kept no polygon (it found none, or
\* every one it found had fewer than 3 pairs); whenever the namespaced search
\* keeps at least one polygon, no polygon element without namespace
\* contributes to the returned list, and otherwise only those contribute.
C4_FallbackWhenNoneKept ==
    ParseReturned
    => LET kept == NsKept IN
       /\ parsed.plain <=> kept = {}
       /\ kept # {} =>
              \A k \in 1..Len(parsed.from) : disk.doc.elems[parsed.from[k]].svgns
       /\ kept = {} =>
              \A k \in 1..Len(parsed.from) : ~disk.doc.elems[parsed.from[k]].svgns

C4_Witness ==
    /\ ParseReturned
    /\ NsElems # {}
    /\ parsed.plain
    /\ Len(parsed.polygons) = 1
    /\ ~disk.doc.elems[parsed.from[1]].svgns

\* the tokens of every polygon element of the document
AllTokens == [i \in 1..Len(disk.doc.elems) |-> TokensOf(i)]

\* C5: every polygon parse_svg returns has at least 3 vertex pairs; the
\* returned polygons are, in document order, the elements of the searched
\* kind whose points yield at least 3 pairs, each with its vertices in token
\* order, a last token without partner left out; an element that yields
\* fewer (its attribute empty or missing included) is left out, and is no
\* reason for an error: parse_svg raises only for a document that is not
\* well-formed, a width or height that is no number, or a paired token that
\* is no number.
C5_AtLeastThreePairs ==
    \A toks \in {AllTokens} :
    LET pairs == [i \in 1..Len(disk.doc.elems) |-> Len(toks[i]) \div 2] IN
    /\ ParseReturned =>
        /\ \A k \in 1..Len(parsed.polygons) : Len(parsed.polygons[k]) >= 3
        /\ \A j, k \in 1..Len(parsed.from) : j < k => parsed.from[j] < parsed.from[k]
        /\ {parsed.from[k] : k \in 1..Len(parsed.from)}
               = {i \in 1..Len(disk.doc.elems) :
                      /\ disk.doc.elems[i].svgns = ~parsed.plain
                      /\ pairs[i] >= 3}
        /\ Len(parsed.polygons) = Len(parsed.from)
        /\ \A k \in 1..Len(parsed.polygons) :
               LET i == parsed.from[k] IN
               /\ Len(parsed.polygons[k]) = pairs[i]
               /\ \A j \in 1..pairs[i] :
                      parsed.polygons[k][j] = <<HalvesOf(toks[i][2 * j - 1]),
                                                HalvesOf(toks[i][2 * j])>>
    /\ ParseRaisedErr =>
        \/ ~disk.doc.wellformed
        \/ ~IsFloatLiteral(Get(disk.doc.width, <<"1", "9", "2", "0">>))
        \/ ~IsFloatLiteral(Get(disk.doc.height, <<"1", "0", "8", "0">>))
        \/ \E i \in 1..Len(disk.doc.elems) :
               \E j \in 1..(2 * pairs[i]) : ~IsFloatLiteral(toks[i][j])

\* a document of two elements of one kind: one is kept, the other yields two
\* pairs and a token without partner and is left out
C5_Witness ==
    /\ ParseReturned
    /\ Len(disk.doc.elems) = 2
    /\ Len(parsed.polygons) = 1
    /\ \E i \in 1..2 :
           /\ disk.doc.elems[i].svgns = ~parsed.plain
           /\ PairCount(i) = 2
           /\ Len(TokensOf(i)) = 5

NonNumeric(attr) == attr.present /\ ~IsFloatLiteral(attr.text)

\* C6 as stated: parse_svg returns width 1920 and height 1080 when the
\* attribute is absent, and also when it is present and no number: the
\* default is used rather than the conversion failing.
C6_AsStated ==
    (parse_calls = 1 /\ disk.doc.wellformed)
    => /\ (~disk.doc.width.present \/ NonNumeric(disk.doc.width))
              => (ParseReturned /\ parsed.width = 2 * 1920)
       /\ (~disk.doc.height.present \/ NonNumeric(disk.doc.height))
              => (ParseReturned /\ parsed.height = 2 * 1080)

\* C6 as amended: when parse_svg returns, an absent width is 1920, an absent
\* height is 1080 and a present one is the number it writes; when the width
\* or the height is present and no number, float() raises ValueError and
\* parse_svg returns nothing: main's handler catches it, no output is written
\* and the process exits with status 1.
C6_DefaultOnlyWhenAbsent ==
    (parse_calls = 1 /\ disk.doc.wellformed)
    => /\ ParseReturned =>
            /\ ~disk.doc.width.present => parsed.width = 2 * 1920
            /\ ~disk.doc.height.present => parsed.height = 2 * 1080
            /\ (disk.doc.width.present /\ ~NonNumeric(disk.doc.width))
                   => parsed.width = HalvesOf(disk.doc.width.text)
            /\ (disk.doc.height.present /\ ~NonNumeric(disk.doc.height))
                   => parsed.height = HalvesOf(disk.doc.height.text)
       /\ (NonNumeric(disk.doc.width) \/ NonNumeric(disk.doc.height)) =>
            /\ parsed.err = "ValueError"
            /\ written = <<>>
            /\ pc \in {"return", "exit"}
            /\ pc = "exit" => status = 1

C6_Witness ==
    /\ pc = "exit"
    /\ disk.doc.width = Attr(<<"1", "0", "0", "p", "x">>)
    /\ parsed.err = "ValueError"
    /\ status = 1

\* The place in the chain of the test of triangle t (from 0) of polygon i
\* (from 0) when the tests are ordered by polygon and then by triangle: after
\* the N - 2 tests of each earlier polygon.
RECURSIVE TestsBefore(_, _)
TestsBefore(polygons, i) ==
    IF i = 0 THEN 0
    ELSE TestsBefore(polygons, i - 1) + (Len(polygons[i]) - 2)
PlaceOf(polygons, i, t) == TestsBefore(polygons, i) + t + 1

\* the pixels the chain is evaluated at: a grid over the canvas corner the
\* polygons of the model lie in, in the shader's coordinates (y from below)
GridStep == 8
Pixels(height) ==
    {<<GridStep * gx, height - GridStep * gy>> : gx \in 0..5, gy \in 0..5}

\* the tests of a compiled text whose triangle holds the pixel
Hits(compiled, px) ==
    {k \in 1..Len(compiled) :
        pointInTriangle(px, compiled[k].a, compiled[k].b, compiled[k].c)}
Least(S) == CHOOSE k \in S : \A j \in S : k <= j
\* the polygons (from 0) one of whose tests is among `hits`
PolysHit(hits, polygons) ==
    {i \in 0..(Len(polygons) - 1) :
        \E t \in 0..(Len(polygons[i + 1]) - 3) : PlaceOf(polygons, i, t) \in hits}

\* C8: in a written text the tests are one chain ordered by polygon index and
\* then by triangle index; the first test, and no other, starts with `if`,
\* every later one with `else if`; so for a pixel the chain assigns alpha
\* from the earliest test whose triangle holds it, which is a test of the
\* lowest-indexed polygon that covers the pixel, and alpha stays 0 when no
\* test matches.
C8_ElseIfChain ==
    \A w \in 1..Len(written) :
        LET text == written[w].text
            polygons == parsed.polygons
            compiled == Compiled(text)
        IN  /\ \A k \in 1..Len(text.checks) :
                   text.checks[k].kw = IF k = 1 THEN "if" ELSE "else if"
            /\ \A i \in 0..(Len(polygons) - 1) :
                   \A t \in 0..(Len(polygons[i + 1]) - 3) :
                       LET ck == text.checks[PlaceOf(polygons, i, t)] IN
                       /\ ck.alpha = AlphaName(i)
                       /\ ck.b = <<Fmt3(polygons[i + 1][t + 2][1]),
                                   Fmt3(parsed.height - polygons[i + 1][t + 2][2])>>
            /\ \A px \in Pixels(parsed.height) :
                   LET hits == Hits(compiled, px)
                       alpha == ShaderAlpha(compiled, px)
                   IN  IF hits = {}
                       THEN alpha = <<>>
                       ELSE /\ alpha = text.checks[Least(hits)].alpha
                            /\ alpha = AlphaName(Least(PolysHit(hits, polygons)))

\* a text of three tests and a pixel that lies in a triangle of polygon 0 and
\* in the triangle of polygon 1
C8_Witness ==
    /\ Len(written) = 1
    /\ Len(written[1].text.checks) = 3
    /\ \E px \in Pixels(parsed.height) :
           /\ PolysHit(Hits(Compiled(written[1].text), px), parsed.polygons) = {0, 1}
           /\ ShaderAlpha(Compiled(written[1].text), px) = AlphaName(0)

\* the INPUTS of a text that are per-polygon parameters
PolyParams(text) == SelectSeq(text.INPUTS, LAMBDA inp : inp.NAME[1] = "poly")

Square == <<<<0, 0>>, <<20, 0>>, <<20, 20>>, <<0, 20>>>>

\* C9: for P polygons with N_0 .. N_(P-1) vertices the text has exactly the P
\* per-polygon parameters poly0_alpha .. poly(P-1)_alpha, in the order of the
\* polygon list, and exactly sum (N_i - 2) tests; the test of triangle t of
\* polygon i assigns poly{i}_alpha and tests the vertices v0, v(t+1), v(t+2)
\* of polygon i, each (x, y) written as (x, height - y) with 3 decimals.  For
\* the square (0,0) (10,0) (10,10) (0,10) on a 20 x 20 canvas: 2 tests, the
\* one parameter poly0_alpha, and vertex (0,0) written as (0.000, 20.000).
C9_ParamsAndTests ==
    \A w \in 1..Len(written) :
        LET text == written[w].text
            polygons == parsed.polygons
            P == Len(polygons)
            Emitted(v) == <<Fmt3(v[1]), Fmt3(parsed.height - v[2])>>
        IN  /\ Len(PolyParams(text)) = P
            /\ \A i \in 0..(P - 1) : PolyParams(text)[i + 1].NAME = AlphaName(i)
            /\ Len(text.checks) = TestsBefore(polygons, P)
            /\ \A i \in 0..(P - 1) :
                   \A t \in 0..(Len(polygons[i + 1]) - 3) :
                       LET ck == text.checks[PlaceOf(polygons, i, t)] IN
                       /\ ck.alpha = AlphaName(i)
                       /\ ck.a = Emitted(polygons[i + 1][1])
                       /\ ck.b = Emitted(polygons[i + 1][t + 2])
                       /\ ck.c = Emitted(polygons[i + 1][t + 3])
            /\ (polygons = <<Square>> /\ parsed.width = 40 /\ parsed.height = 40)
                   => /\ Len(text.checks) = 2
                      /\ Len(PolyParams(text)) = 1
                      /\ PolyParams(text)[1].NAME = <<"poly", "0", "_alpha">>
                      /\ text.checks[1].a = <<<<"0", ".", "0", "0", "0">>, <<"2", "0", ".", "0", "0", "0">>>>

C9_Witness ==
    /\ Len(written) = 1
    /\ parsed.polygons = <<Square>>
    /\ parsed.width = 40
    /\ parsed.height = 40
    /\ Len(written[1].text.checks) = 2

\* C10: every run on one input writes the same text, whatever its second
\* argument; the text always has the ISF header; the second argument decides
\* only the extension of the file that is written: .isf for --isf, and .glsl
\* for --glsl, for no second argument and for any other one.
C10_SameTextAnyMode ==
    /\ \A j, k \in 1..Len(written) : written[j].text = written[k].text
    /\ \A k \in 1..Len(written) :
           /\ written[k].text.header
           /\ written[k].path.stem = "in"
           /\ written[k].path.suffix \in {".isf", ".glsl"}
    /\ gen = "wrote" =>
           written[Len(written)].path.suffix
               = IF Len(argv) > 2 /\ argv[3] = "--isf" THEN ".isf" ELSE ".glsl"

\* two runs have written, one with --isf and one with --glsl
C10_Witness ==
    /\ Len(written) = 2
    /\ written[1].path.suffix = ".isf"
    /\ written[2].path.suffix = ".glsl"
    /\ gen = "wrote"
    /\ Len(argv) > 2 /\ argv[3] = "--glsl"

=============================================================================
